---- MODULE Spec2Model ----
(***************************************************************************)
(* The lifecycle controller of gemvm.py (class VMControl): six asyncio     *)
(* tasks started by VMControl._run and joined with asyncio.gather.         *)
(*                                                                         *)
(* One action is one step of one task: from the point where the event loop *)
(* resumes the coroutine to its next suspension (await) or its end.  The   *)
(* event that completes the awaited future (process exit, probe reply,     *)
(* control-socket line, timer) is an input of the step.  Timers are not    *)
(* measured: a sleep may complete at any time, so every ordering of the    *)
(* 1 s, 60 s and 300 s delays with the other events is a behaviour.        *)
(*                                                                         *)
(* Task.cancel() on a task that has not ended makes its next step raise    *)
(* CancelledError at the await where it is suspended (must_cancel), also   *)
(* when the awaited future has completed already.  A task that awaits the  *)
(* _wait_until_booted task passes the cancellation on to that task.        *)
(***************************************************************************)
EXTENDS Integers, Sequences, FiniteSets

VARIABLES
    state,            \* VMControl._state
    qmp_established,  \* VMControl._qmp_established
    pid,              \* VMControl.pid:         <<>> is None, <<p>> a value
    exit_status,      \* VMControl.exit_status: <<>> is None, <<c>> a value
    mem_err,          \* VMControl.mem_err
    shutdown_request, \* events['shutdown_request'].is_set()
    pc,               \* where each task of VMControl._tasks is suspended
    result,           \* how each task ended, "pending" while it has not
    must_cancel,      \* tasks with a cancellation requested and not yet raised
    rpc,              \* position of VMControl._run
    errors,           \* tasks whose exception _run appends to `errors`
    stderr,           \* messages written to sys.stderr, in order
    notices,          \* number of 'Shutdown requested' notices printed
    shutdown_req_msg, \* local of _progress
    attempts,         \* 'Attempt ssh connection' log lines (probe attempts)
    ssh_open,         \* the probe's TCP connection is open
    qmp_sock,         \* the control socket: "none", "open", "closed"
    sent,             \* commands written to the control socket, in order
    reply,            \* local `reply` of _shut_down: the last line read (unparsed)
    nlines,           \* lines read by _shut_down's event loop and ignored
    log,              \* the child's output in the log file at its exit
    interrupts,       \* SIGINT deliveries handled by the event loop
    phases,           \* every value assigned to VMControl.state, in order
    requested_in      \* history, kept by HistSpec only: the phase at the
                      \* first SIGINT delivery, <<>> before it

vmvars   == <<state, qmp_established, pid, exit_status, mem_err>>
taskvars == <<pc, result, must_cancel>>
runvars  == <<rpc, errors>>
outvars  == <<stderr, notices, shutdown_req_msg>>
sshvars  == <<attempts, ssh_open>>
qmpvars  == <<qmp_sock, sent, reply, nlines>>
sigvars  == <<shutdown_request, requested_in>>
vars     == <<state, qmp_established, pid, exit_status, mem_err,
              shutdown_request, pc, result, must_cancel, rpc, errors,
              stderr, notices, shutdown_req_msg, attempts, ssh_open,
              qmp_sock, sent, reply, nlines, log, interrupts, phases,
              requested_in>>

(***************************************************************************)
(* Bounds of the model.                                                    *)
(***************************************************************************)
MaxAttempts   == 3   \* probe attempts made by _wait_until_booted
MaxLines      == 2   \* lines _shut_down's event loop reads and ignores
MaxInterrupts == 2   \* SIGINT deliveries

(***************************************************************************)
(* Program constants.                                                      *)
(***************************************************************************)
states == {"off", "booting", "running", "shutting_down"}

RUN_VM           == "_run_vm"
WAIT_UNTIL_BOOTED == "_wait_until_booted"
PROGRESS         == "_progress"
BOOT_TIMEOUT     == "_boot_timeout"
SHUT_DOWN        == "_shut_down"
SHUTDOWN_TIMEOUT == "_shutdown_timeout"

\* the order in which _run creates the tasks (and the loop first runs them)
TaskOrder == <<RUN_VM, WAIT_UNTIL_BOOTED, PROGRESS, BOOT_TIMEOUT, SHUT_DOWN,
               SHUTDOWN_TIMEOUT>>
Tasks == {TaskOrder[i] : i \in 1..Len(TaskOrder)}

\* the names _run_vm's finally clause passes to _cancel_tasks
CleanupNames == {SHUT_DOWN, WAIT_UNTIL_BOOTED, SHUTDOWN_TIMEOUT, BOOT_TIMEOUT}

MsgBootTimeout     == "Timed out."
MsgShutdownTimeout == "Shut down timed out."
MsgStateChanged    == "State changed before successful connection"

CmdCapabilities == "{\"execute\": \"qmp_capabilities\"}"
CmdPowerdown    == "{\"execute\": \"system_powerdown\"}"

None == <<>>

(***************************************************************************)
(* The boot probe's banner check: reply.startswith(b'SSH-2.0-').           *)
(* A reply is the sequence of its characters.                              *)
(***************************************************************************)
BannerPrefix == <<"S", "S", "H", "-", "2", ".", "0", "-">>

startswith(s, prefix) ==
    /\ Len(s) >= Len(prefix)
    /\ SubSeq(s, 1, Len(prefix)) = prefix

\* what reader.readline() of the probe can return
SshReplies ==
    { <<>>,                                         \* EOF
      BannerPrefix \o <<"O">>,                      \* SSH-2.0-O...
      BannerPrefix,                                 \* exactly the prefix
      <<"S", "S", "H", "-", "1", ".", "9", "9", "-">>,
      <<"S", "S", "H", "-", "2", ".", "0">> }       \* prefix cut short

\* a reply of more than 64 KiB without a newline: readline raises ValueError
SshOverrun == <<"<more than 64 KiB without a newline>">>

\* _check_ssh after the line is read: "ok", or the ConnectionError it raises
check_ssh_reply(r) ==
    IF ~ startswith(r, BannerPrefix) THEN "ConnectionError" ELSE "ok"

(***************************************************************************)
(* The control socket's lines and json.loads.  A parsed value is tagged    *)
(* with its Python type: a dict is [t |-> "dict", v |-> key -> value].     *)
(***************************************************************************)
LineEOF        == ""
LineReturnOk   == "{\"return\": {}}"
LineReturnData == "{\"return\": {\"x\": 1}}"
LineError      == "{\"error\": {\"class\": \"CommandNotFound\"}}"
LineShutdown   == "{\"event\": \"SHUTDOWN\"}"
LinePowerdown  == "{\"event\": \"POWERDOWN\"}"
LineNumber     == "5"
LineGarbage    == "{\"event\": "

QmpLines == {LineEOF, LineReturnOk, LineReturnData, LineError, LineShutdown,
             LinePowerdown, LineNumber, LineGarbage}

PyStr(s)  == [t |-> "str", v |-> s]
PyInt(n)  == [t |-> "int", v |-> n]
PyDict(f) == [t |-> "dict", v |-> f]
EmptyDict == PyDict(<<>>)
JSONDecodeError == [t |-> "JSONDecodeError", v |-> 0]

json_loads(line) ==
    CASE line = LineReturnOk   -> PyDict([return |-> EmptyDict])
      [] line = LineReturnData -> PyDict([return |-> PyDict([x |-> PyInt(1)])])
      [] line = LineError      ->
             PyDict([error |-> PyDict([class |-> PyStr("CommandNotFound")])])
      [] line = LineShutdown   -> PyDict([event |-> PyStr("SHUTDOWN")])
      [] line = LinePowerdown  -> PyDict([event |-> PyStr("POWERDOWN")])
      [] line = LineNumber     -> PyInt(5)
      [] OTHER                 -> JSONDecodeError

\* Python's ==, on tagged values
py_eq(a, b) ==
    /\ a.t = b.t
    /\ IF a.t = "dict"
       THEN /\ DOMAIN a.v = DOMAIN b.v
            /\ \A k \in DOMAIN a.v : a.v[k] = b.v[k]
       ELSE a.v = b.v

\* (mutant) any reply with a 'return' field is accepted: `'return' in reply`
is_standard_response_any_return(r) ==
    CASE r.t = "JSONDecodeError" -> "JSONDecodeError"
      [] r.t = "dict" -> IF "return" \in DOMAIN r.v THEN "True" ELSE "False"
      [] OTHER -> "TypeError"

\* `'return' in reply and reply['return'] == {}` of _shut_down:
\* "True", "False", or the exception raised
is_standard_response(r) ==
    CASE r.t = "JSONDecodeError" -> "JSONDecodeError"
      [] r.t = "dict" ->
             IF "return" \in DOMAIN r.v /\ py_eq(r.v["return"], EmptyDict)
             THEN "True" ELSE "False"
      [] OTHER -> "TypeError"        \* `in` on an int

\* (mutant) any event ends the loop: `'event' in reply`
is_shutdown_event_any(r) ==
    CASE r.t = "JSONDecodeError" -> "JSONDecodeError"
      [] r.t = "dict" -> IF "event" \in DOMAIN r.v THEN "True" ELSE "False"
      [] OTHER -> "TypeError"

\* `'event' in reply and reply['event'] == 'SHUTDOWN'` of _shut_down
is_shutdown_event(r) ==
    CASE r.t = "JSONDecodeError" -> "JSONDecodeError"
      [] r.t = "dict" ->
             IF "event" \in DOMAIN r.v /\ py_eq(r.v["event"], PyStr("SHUTDOWN"))
             THEN "True" ELSE "False"
      [] OTHER -> "TypeError"

\* a line of more than 64 KiB without a newline: readline raises ValueError
LineOverrun == "<more than 64 KiB without a newline>"

\* the peer resets the connection: readline raises ConnectionResetError
LineReset == "<connection reset by peer>"

\* the outcomes of `await reader.readline()` on the control socket that
\* return no line: the exception leaves `reply` as it was
ReadErrors == {LineOverrun, LineReset}

\* `reply` before any line is read
NoReply == "<none>"

(***************************************************************************)
(* The log scan of _run_vm: a line is the sequence of its words, the log   *)
(* the sequence of its lines.                                              *)
(***************************************************************************)
MemNeedle == <<"cannot", "set", "up", "guest", "memory">>

contains(line, needle) ==
    \E i \in 1..(Len(line) + 1) :
        /\ i + Len(needle) - 1 <= Len(line)
        /\ SubSeq(line, i, i + Len(needle) - 1) = needle

\* (mutant) only the first line of the log is looked at
scan_log_first_line(lines) ==
    Len(lines) >= 1 /\ contains(lines[1], MemNeedle)

scan_log(lines) == \E k \in 1..Len(lines) : contains(lines[k], MemNeedle)

ChildOutputs ==
    { <<>>,
      << <<"qemu:", "could", "not", "open", "disk">> >>,
      << <<"qemu:", "cannot", "set", "up", "guest">>, <<"memory">> >>,
      << <<"VNC", "off">>,
         <<"qemu:", "cannot", "set", "up", "guest", "memory", "pc.ram">> >> }

ExitCodes == {0, 1, 2, -9}

(***************************************************************************)
(* Task bookkeeping.                                                       *)
(***************************************************************************)
Pending(t) == result[t] = "pending"

\* tasks are first run in the order of their creation, in one loop iteration
NextToStart(t) ==
    /\ pc[t] = "start"
    /\ \A i \in 1..Len(TaskOrder) :
          (\E j \in (i + 1)..Len(TaskOrder) : TaskOrder[j] = t)
              => pc[TaskOrder[i]] # "start"

AllStarted == \A t \in Tasks : pc[t] \notin {"uncreated", "start"}

\* a step of task t that resumes it normally from position p
Resumes(t, p) ==
    /\ AllStarted
    /\ Pending(t)
    /\ pc[t] = p
    /\ ~ must_cancel[t]

\* a step of task t that raises CancelledError in it
Cancelled(t) ==
    /\ Pending(t)
    /\ must_cancel[t]
    /\ IF pc[t] = "start" THEN NextToStart(t) ELSE AllStarted

\* Task.cancel() of one task: the set of tasks whose must_cancel it raises.
\* A task suspended on the _wait_until_booted task cancels that task instead.
task_cancel(t) ==
    IF ~ Pending(t) THEN {}
    ELSE IF pc[t] = "await_booted" /\ Pending(WAIT_UNTIL_BOOTED)
         THEN {WAIT_UNTIL_BOOTED}
         ELSE {t}

\* (mutant) _cancel_tasks cancels nothing
_cancel_tasks_nothing(names) == must_cancel

\* VMControl._cancel_tasks(*names): must_cancel after the calls;
\* no names stands for every task
_cancel_tasks(names) ==
    LET ns == IF names = {} THEN Tasks ELSE names
    IN  [t \in Tasks |->
            must_cancel[t] \/ (\E n \in ns : t \in task_cancel(n))]

\* must_cancel once the CancelledError has been raised in task t
Raised(t) == [must_cancel EXCEPT ![t] = FALSE]

\* the task's step ends the coroutine: by return ("finished", or "cancelled"
\* when it cancelled itself in this step) or by an exception
Ended(t, how, mc) ==
    /\ pc' = [pc EXCEPT ![t] = "done"]
    /\ result' = [result EXCEPT ![t] =
                     IF how = "finished" /\ mc[t] THEN "cancelled" ELSE how]
    /\ must_cancel' = [mc EXCEPT ![t] = FALSE]

Goes(t, p) ==
    /\ pc' = [pc EXCEPT ![t] = p]
    /\ UNCHANGED <<result, must_cancel>>

\* the state setter
set_state(s) ==
    /\ s \in states
    /\ state' = s
    /\ phases' = Append(phases, s)

Init ==
    /\ state = "off"
    /\ qmp_established = FALSE
    /\ pid = None
    /\ exit_status = None
    /\ mem_err = FALSE
    /\ shutdown_request = FALSE
    /\ pc = [t \in Tasks |-> "uncreated"]
    /\ result = [t \in Tasks |-> "pending"]
    /\ must_cancel = [t \in Tasks |-> FALSE]
    /\ rpc = "init"
    /\ errors = {}
    /\ stderr = <<>>
    /\ notices = 0
    /\ shutdown_req_msg = FALSE
    /\ attempts = 0
    /\ ssh_open = FALSE
    /\ qmp_sock = "none"
    /\ sent = <<>>
    /\ reply = NoReply
    /\ nlines = 0
    /\ log = <<>>
    /\ interrupts = 0
    /\ phases = <<>>
    /\ requested_in = None

(***************************************************************************)
(* VMControl._run: the controller.                                         *)
(***************************************************************************)
\* self.state = 'booting', then the six tasks are created
_run_create_tasks ==
    /\ rpc = "init"
    /\ set_state("booting")
    /\ pc' = [t \in Tasks |-> "start"]
    /\ rpc' = "gather"
    /\ UNCHANGED <<qmp_established, pid, exit_status, mem_err,
                   sigvars, result, must_cancel, errors, outvars,
                   sshvars, qmpvars, log, interrupts>>

\* asyncio.gather(..., return_exceptions=True) returns when every task ended
gather_returns == \A t \in Tasks : ~ Pending(t)

\* (mutant) the test for CancelledError without its `not`
collect_errors_inverted(retvals) ==
    {t \in Tasks : retvals[t] = "failed" /\ retvals[t] = "cancelled"}

\* (mutant) every retval that is an exception is appended, CancelledError too
collect_errors_with_cancelled(retvals) ==
    {t \in Tasks : retvals[t] \in {"failed", "cancelled"}}

\* the retvals that are an Exception and not a CancelledError
collect_errors(retvals) == {t \in Tasks : retvals[t] = "failed"}

_run_collect ==
    /\ rpc = "gather"
    /\ AllStarted
    /\ gather_returns
    /\ errors' = collect_errors(result)
    /\ rpc' = "done"
    /\ UNCHANGED <<vmvars, sigvars, taskvars, outvars, sshvars,
                   qmpvars, log, interrupts, phases>>

\* (mutant) the handler toggles the event
event_set_toggle(e) == ~ e

\* (mutant) a delivery while the machine is booting does not set the event
event_set_unless_booting(e) == e \/ state # "booting"

\* the SIGINT handler: events['shutdown_request'].set()
event_set(e) == TRUE

signal_delivered ==
    /\ rpc = "gather"
    /\ AllStarted
    /\ interrupts < MaxInterrupts
    /\ interrupts' = interrupts + 1
    /\ shutdown_request' = event_set(shutdown_request)
    /\ UNCHANGED <<vmvars, taskvars, runvars, outvars, sshvars, qmpvars,
                   log, phases>>

_keyboard_interrupt ==
    /\ signal_delivered
    /\ UNCHANGED requested_in

\* the same step, with the phase of the first delivery kept as history
_keyboard_interrupt_recorded ==
    /\ signal_delivered
    /\ requested_in' = IF requested_in = None THEN <<state>> ELSE requested_in

(***************************************************************************)
(* VMControl._run_vm: the process supervisor.                              *)
(***************************************************************************)
\* the finally clause, then the end of the task
run_vm_finally(how) ==
    /\ set_state("off")
    /\ Ended(RUN_VM, how, _cancel_tasks(CleanupNames))

\* first step: the log file is opened, then create_subprocess_exec suspends
\* or raises at once (the command cannot be executed) and the finally clause
\* runs; or opening the log file raises, before the try block is entered,
\* and the task ends with no finally clause run
_run_vm_start ==
    /\ NextToStart(RUN_VM)
    /\ Pending(RUN_VM)
    /\ ~ must_cancel[RUN_VM]
    /\ \/ /\ Goes(RUN_VM, "spawning")
          /\ UNCHANGED <<state, phases>>
       \/ run_vm_finally("failed")
       \/ /\ Ended(RUN_VM, "failed", must_cancel)
          /\ UNCHANGED <<state, phases>>
    /\ UNCHANGED <<qmp_established, pid, exit_status, mem_err,
                   sigvars, runvars, outvars, sshvars, qmpvars,
                   log, interrupts>>

\* create_subprocess_exec returns the process: self.pid = proc.pid
_run_vm_spawned ==
    /\ Resumes(RUN_VM, "spawning")
    /\ pid' = <<1>>
    /\ Goes(RUN_VM, "waiting")
    /\ UNCHANGED <<state, qmp_established, exit_status, mem_err,
                   sigvars, runvars, outvars, sshvars, qmpvars,
                   log, interrupts, phases>>

\* (mutant) the exit code is not saved
_run_vm_exit_unsaved ==
    /\ Resumes(RUN_VM, "waiting")
    /\ \E code \in ExitCodes, out \in ChildOutputs :
          /\ log' = out
          /\ mem_err' = IF code = 1 /\ scan_log(out) THEN TRUE ELSE mem_err
    /\ run_vm_finally("finished")
    /\ UNCHANGED <<qmp_established, pid, exit_status, sigvars,
                   runvars, outvars, sshvars, qmpvars, interrupts>>

\* (mutant) the log is scanned whatever the exit code
_run_vm_exit_always_scans ==
    /\ Resumes(RUN_VM, "waiting")
    /\ \E code \in ExitCodes, out \in ChildOutputs :
          /\ exit_status' = <<code>>
          /\ log' = out
          /\ mem_err' = IF scan_log(out) THEN TRUE ELSE mem_err
    /\ run_vm_finally("finished")
    /\ UNCHANGED <<qmp_established, pid, sigvars, runvars, outvars,
                   sshvars, qmpvars, interrupts>>

\* proc.wait() returns the exit code; the log is scanned when it is 1
_run_vm_exit ==
    /\ Resumes(RUN_VM, "waiting")
    /\ \E code \in ExitCodes, out \in ChildOutputs :
          /\ exit_status' = <<code>>
          /\ log' = out
          /\ mem_err' = IF code = 1 /\ scan_log(out) THEN TRUE ELSE mem_err
    /\ run_vm_finally("finished")
    /\ UNCHANGED <<qmp_established, pid, sigvars, runvars, outvars,
                   sshvars, qmpvars, interrupts>>

\* CancelledError raised at the await of create_subprocess_exec or proc.wait
\* (a coroutine cancelled before its first step runs none of its code)
_run_vm_cancelled ==
    /\ Cancelled(RUN_VM)
    /\ IF pc[RUN_VM] = "start"
       THEN /\ Ended(RUN_VM, "cancelled", Raised(RUN_VM))
            /\ UNCHANGED <<state, phases>>
       ELSE run_vm_finally("cancelled")
    /\ UNCHANGED <<qmp_established, pid, exit_status, mem_err,
                   sigvars, runvars, outvars, sshvars, qmpvars,
                   log, interrupts>>

(***************************************************************************)
(* VMControl._wait_until_booted and _check_ssh: the boot probe.            *)
(***************************************************************************)
\* the head of the while loop: another attempt while the state is 'booting'
\* (_check_ssh suspends in open_connection, or socket.gethostbyname raises
\* at once an error that is no ConnectionError and the task ends with it),
\* else the loop ends and the task returns (with the message on stderr
\* when the state is not 'running')
wait_until_booted_loop ==
    IF state = "booting"
    THEN /\ attempts' = attempts + 1
         /\ \/ Goes(WAIT_UNTIL_BOOTED, "connecting")
            \/ Ended(WAIT_UNTIL_BOOTED, "failed", must_cancel)
         /\ UNCHANGED stderr
    ELSE /\ stderr' = IF state # "running"
                      THEN Append(stderr, MsgStateChanged) ELSE stderr
         /\ Ended(WAIT_UNTIL_BOOTED, "finished", must_cancel)
         /\ UNCHANGED attempts

_wait_until_booted_start ==
    /\ NextToStart(WAIT_UNTIL_BOOTED)
    /\ Pending(WAIT_UNTIL_BOOTED)
    /\ ~ must_cancel[WAIT_UNTIL_BOOTED]
    /\ wait_until_booted_loop
    /\ UNCHANGED <<vmvars, sigvars, runvars, notices,
                   shutdown_req_msg, ssh_open, qmpvars, log, interrupts,
                   phases>>

\* asyncio.open_connection returns, raises a ConnectionError (refused), or
\* raises another OSError (no route, too many open files)
ConnectOutcomes == {"connected", "ConnectionError", "OSError"}

_check_ssh_connect ==
    /\ Resumes(WAIT_UNTIL_BOOTED, "connecting")
    /\ \E outcome \in ConnectOutcomes :
          CASE outcome = "connected" ->
                   /\ ssh_open' = TRUE
                   /\ Goes(WAIT_UNTIL_BOOTED, "reading")
            [] outcome = "ConnectionError" ->
                   /\ Goes(WAIT_UNTIL_BOOTED, "retry_sleep")
                   /\ UNCHANGED ssh_open
            [] OTHER ->
                   /\ Ended(WAIT_UNTIL_BOOTED, "failed", must_cancel)
                   /\ UNCHANGED ssh_open
    /\ UNCHANGED <<vmvars, sigvars, runvars, outvars, attempts,
                   qmpvars, log, interrupts, phases>>

\* (mutant) the probe's success does not cancel the boot watchdog
_check_ssh_reply_no_cancel ==
    /\ Resumes(WAIT_UNTIL_BOOTED, "reading")
    /\ ssh_open' = FALSE
    /\ \E r \in SshReplies \cup {SshOverrun} :
          CASE r = SshOverrun ->
                   /\ Ended(WAIT_UNTIL_BOOTED, "failed", must_cancel)
                   /\ UNCHANGED <<state, phases>>
            [] r # SshOverrun /\ check_ssh_reply(r) = "ok" ->
                   /\ set_state("running")
                   /\ Ended(WAIT_UNTIL_BOOTED, "finished", must_cancel)
            [] OTHER ->
                   /\ Goes(WAIT_UNTIL_BOOTED, "retry_sleep")
                   /\ UNCHANGED <<state, phases>>
    /\ UNCHANGED <<qmp_established, pid, exit_status, mem_err,
                   sigvars, runvars, outvars, attempts, qmpvars,
                   log, interrupts>>

\* reader.readline() returns or raises ValueError (line too long); the
\* connection is closed; the banner decides
_check_ssh_reply ==
    /\ Resumes(WAIT_UNTIL_BOOTED, "reading")
    /\ ssh_open' = FALSE
    /\ \E r \in SshReplies \cup {SshOverrun} :
          CASE r = SshOverrun ->
                   /\ Ended(WAIT_UNTIL_BOOTED, "failed", must_cancel)
                   /\ UNCHANGED <<state, phases>>
            [] r # SshOverrun /\ check_ssh_reply(r) = "ok" ->
                   /\ set_state("running")
                   /\ Ended(WAIT_UNTIL_BOOTED, "finished",
                            _cancel_tasks({BOOT_TIMEOUT}))
            [] OTHER ->
                   /\ Goes(WAIT_UNTIL_BOOTED, "retry_sleep")
                   /\ UNCHANGED <<state, phases>>
    /\ UNCHANGED <<qmp_established, pid, exit_status, mem_err,
                   sigvars, runvars, outvars, attempts, qmpvars,
                   log, interrupts>>

\* asyncio.sleep(1) returns: back to the head of the loop
_wait_until_booted_retry ==
    /\ Resumes(WAIT_UNTIL_BOOTED, "retry_sleep")
    /\ attempts < MaxAttempts
    /\ wait_until_booted_loop
    /\ UNCHANGED <<vmvars, sigvars, runvars, notices,
                   shutdown_req_msg, ssh_open, qmpvars, log, interrupts,
                   phases>>

\* CancelledError at any of its awaits: the connection is closed if open
_wait_until_booted_cancelled ==
    /\ Cancelled(WAIT_UNTIL_BOOTED)
    /\ ssh_open' = FALSE
    /\ Ended(WAIT_UNTIL_BOOTED, "cancelled", Raised(WAIT_UNTIL_BOOTED))
    /\ UNCHANGED <<vmvars, sigvars, runvars, outvars, attempts,
                   qmpvars, log, interrupts, phases>>

(***************************************************************************)
(* VMControl._progress: the progress reporter.                             *)
(***************************************************************************)
\* (mutant) the notice is printed on every pass while the event is set
progress_loop_repeats ==
    IF state # "off"
    THEN /\ IF shutdown_request
            THEN /\ shutdown_req_msg' = TRUE
                 /\ notices' = notices + 1
            ELSE UNCHANGED <<shutdown_req_msg, notices>>
         /\ Goes(PROGRESS, "sleeping")
    ELSE /\ Ended(PROGRESS, "finished", must_cancel)
         /\ UNCHANGED <<shutdown_req_msg, notices>>

\* one pass of the while loop, up to asyncio.sleep(1)
progress_loop ==
    IF state # "off"
    THEN /\ IF ~ shutdown_req_msg /\ shutdown_request
            THEN /\ shutdown_req_msg' = TRUE
                 /\ notices' = notices + 1
            ELSE UNCHANGED <<shutdown_req_msg, notices>>
         /\ Goes(PROGRESS, "sleeping")
    ELSE /\ Ended(PROGRESS, "finished", must_cancel)
         /\ UNCHANGED <<shutdown_req_msg, notices>>

_progress_start ==
    /\ NextToStart(PROGRESS)
    /\ Pending(PROGRESS)
    /\ ~ must_cancel[PROGRESS]
    /\ progress_loop
    /\ UNCHANGED <<vmvars, sigvars, runvars, stderr, sshvars,
                   qmpvars, log, interrupts, phases>>

_progress_tick ==
    /\ Resumes(PROGRESS, "sleeping")
    /\ progress_loop
    /\ UNCHANGED <<vmvars, sigvars, runvars, stderr, sshvars,
                   qmpvars, log, interrupts, phases>>

_progress_cancelled ==
    /\ Cancelled(PROGRESS)
    /\ Ended(PROGRESS, "cancelled", Raised(PROGRESS))
    /\ UNCHANGED <<vmvars, sigvars, runvars, outvars, sshvars,
                   qmpvars, log, interrupts, phases>>

(***************************************************************************)
(* VMControl._boot_timeout: the boot watchdog.                             *)
(***************************************************************************)
_boot_timeout_start ==
    /\ NextToStart(BOOT_TIMEOUT)
    /\ Pending(BOOT_TIMEOUT)
    /\ ~ must_cancel[BOOT_TIMEOUT]
    /\ Goes(BOOT_TIMEOUT, "sleeping")
    /\ UNCHANGED <<vmvars, sigvars, runvars, outvars, sshvars,
                   qmpvars, log, interrupts, phases>>

\* asyncio.sleep(300) returns
_boot_timeout_expired ==
    /\ Resumes(BOOT_TIMEOUT, "sleeping")
    /\ IF state = "booting"
       THEN /\ stderr' = Append(stderr, MsgBootTimeout)
            /\ Ended(BOOT_TIMEOUT, "finished", _cancel_tasks({}))
       ELSE /\ Ended(BOOT_TIMEOUT, "finished", must_cancel)
            /\ UNCHANGED stderr
    /\ UNCHANGED <<vmvars, sigvars, runvars, notices,
                   shutdown_req_msg, sshvars, qmpvars, log, interrupts,
                   phases>>

\* CancelledError: caught at the sleep (the task returns); raised out of a
\* coroutine that had not started
_boot_timeout_cancelled ==
    /\ Cancelled(BOOT_TIMEOUT)
    /\ Ended(BOOT_TIMEOUT,
             IF pc[BOOT_TIMEOUT] = "start" THEN "cancelled" ELSE "finished",
             Raised(BOOT_TIMEOUT))
    /\ UNCHANGED <<vmvars, sigvars, runvars, outvars, sshvars,
                   qmpvars, log, interrupts, phases>>

(***************************************************************************)
(* VMControl._shut_down: the control-socket client.                        *)
(***************************************************************************)
\* open_unix_connection raises at once (no socket file, refused) or suspends
OpenOutcomes == {"suspends", "error"}

\* past `await self._tasks['_wait_until_booted']`, the awaited task having
\* ended: its CancelledError or exception is raised here too, else
\* open_unix_connection is called
shut_down_after_boot ==
    \E outcome \in OpenOutcomes :
        IF result[WAIT_UNTIL_BOOTED] # "finished"
        THEN Ended(SHUT_DOWN, result[WAIT_UNTIL_BOOTED], must_cancel)
        ELSE IF outcome = "error"
             THEN Ended(SHUT_DOWN, "failed", must_cancel)
             ELSE Goes(SHUT_DOWN, "qmp_connecting")

\* first step: the await suspends while the awaited task has not ended
_shut_down_start ==
    /\ NextToStart(SHUT_DOWN)
    /\ Pending(SHUT_DOWN)
    /\ ~ must_cancel[SHUT_DOWN]
    /\ IF Pending(WAIT_UNTIL_BOOTED)
       THEN Goes(SHUT_DOWN, "await_booted")
       ELSE shut_down_after_boot
    /\ UNCHANGED <<vmvars, sigvars, runvars, outvars, sshvars,
                   qmpvars, log, interrupts, phases>>

\* a task resumed from `await self._tasks['_wait_until_booted']`
BootedResumes(t) ==
    /\ Resumes(t, "await_booted")
    /\ ~ Pending(WAIT_UNTIL_BOOTED)

\* (mutant) the control socket is opened without waiting for the boot probe
_shut_down_booted_no_wait ==
    /\ Resumes(SHUT_DOWN, "await_booted")
    /\ \E outcome \in OpenOutcomes :
          IF outcome = "error"
          THEN Ended(SHUT_DOWN, "failed", must_cancel)
          ELSE Goes(SHUT_DOWN, "qmp_connecting")
    /\ UNCHANGED <<vmvars, sigvars, runvars, outvars, sshvars,
                   qmpvars, log, interrupts, phases>>

\* the awaited task has ended: its CancelledError or exception is raised
\* here too, else the control socket is opened
_shut_down_booted ==
    /\ BootedResumes(SHUT_DOWN)
    /\ shut_down_after_boot
    /\ UNCHANGED <<vmvars, sigvars, runvars, outvars, sshvars,
                   qmpvars, log, interrupts, phases>>

QmpConnectOutcomes == {"connected", "error"}

_shut_down_connected ==
    /\ Resumes(SHUT_DOWN, "qmp_connecting")
    /\ \E outcome \in QmpConnectOutcomes :
          IF outcome = "connected"
          THEN /\ qmp_sock' = "open"
               /\ Goes(SHUT_DOWN, "read_greeting")
          ELSE /\ Ended(SHUT_DOWN, "failed", must_cancel)
               /\ UNCHANGED qmp_sock
    /\ UNCHANGED <<vmvars, sigvars, runvars, outvars, sshvars,
                   sent, reply, nlines, log, interrupts, phases>>

\* the greeting line is read (and not looked at), qmp_capabilities is sent;
\* or readline raises (ValueError, ConnectionResetError) and the finally
\* clause closes the socket
_shut_down_greeting ==
    /\ Resumes(SHUT_DOWN, "read_greeting")
    /\ \E line \in QmpLines \cup ReadErrors :
          IF line \in ReadErrors
          THEN /\ qmp_sock' = "closed"
               /\ Ended(SHUT_DOWN, "failed", must_cancel)
               /\ UNCHANGED <<reply, sent>>
          ELSE /\ reply' = line
               /\ sent' = Append(sent, CmdCapabilities)
               /\ Goes(SHUT_DOWN, "read_caps")
               /\ UNCHANGED qmp_sock
    /\ UNCHANGED <<vmvars, sigvars, runvars, outvars, sshvars,
                   nlines, log, interrupts, phases>>

\* lines 263-266: system_powerdown is written, the state set, and the
\* event loop entered up to its first readline
send_powerdown ==
    /\ sent' = Append(sent, CmdPowerdown)
    /\ set_state("shutting_down")
    /\ Goes(SHUT_DOWN, "read_events")

\* the reply to qmp_capabilities; events['shutdown_request'].wait() returns
\* at once when the event is set
_shut_down_caps ==
    /\ Resumes(SHUT_DOWN, "read_caps")
    /\ \E line \in QmpLines \cup ReadErrors :
          IF line \in ReadErrors
          THEN /\ qmp_sock' = "closed"
               /\ Ended(SHUT_DOWN, "failed", must_cancel)
               /\ UNCHANGED <<reply, qmp_established, sent, state, phases>>
          ELSE /\ reply' = line
               /\ IF is_standard_response(json_loads(line)) = "True"
                  THEN /\ qmp_established' = TRUE
                       /\ IF shutdown_request
                          THEN send_powerdown
                          ELSE /\ Goes(SHUT_DOWN, "await_request")
                               /\ UNCHANGED <<sent, state, phases>>
                       /\ UNCHANGED qmp_sock
                  ELSE /\ qmp_sock' = "closed"
                       /\ Ended(SHUT_DOWN, "failed", must_cancel)
                       /\ UNCHANGED <<qmp_established, sent, state,
                                      phases>>
    /\ UNCHANGED <<pid, exit_status, mem_err, sigvars, runvars,
                   outvars, sshvars, nlines, log, interrupts>>

\* (mutant) the power-down command is sent without waiting for the event
_shut_down_requested_unawaited ==
    /\ Resumes(SHUT_DOWN, "await_request")
    /\ send_powerdown
    /\ UNCHANGED <<qmp_established, pid, exit_status, mem_err,
                   sigvars, runvars, outvars, sshvars, qmp_sock,
                   reply, nlines, log, interrupts>>

\* events['shutdown_request'].wait() returns
_shut_down_requested ==
    /\ Resumes(SHUT_DOWN, "await_request")
    /\ shutdown_request
    /\ send_powerdown
    /\ UNCHANGED <<qmp_established, pid, exit_status, mem_err,
                   sigvars, runvars, outvars, sshvars, qmp_sock,
                   reply, nlines, log, interrupts>>

\* a line of the event loop: SHUTDOWN ends the task, any other parsed
\* object is passed over, anything else raises; or readline itself raises
\* and no line is read
_shut_down_event ==
    /\ Resumes(SHUT_DOWN, "read_events")
    /\ \E line \in QmpLines \cup ReadErrors :
          CASE line \in ReadErrors ->
                   /\ qmp_sock' = "closed"
                   /\ Ended(SHUT_DOWN, "failed", must_cancel)
                   /\ UNCHANGED <<reply, nlines>>
            [] line \notin ReadErrors
                 /\ is_shutdown_event(json_loads(line)) = "True" ->
                   /\ reply' = line
                   /\ qmp_sock' = "closed"
                   /\ Ended(SHUT_DOWN, "finished", must_cancel)
                   /\ UNCHANGED nlines
            [] line \notin ReadErrors
                 /\ is_shutdown_event(json_loads(line)) = "False" ->
                   /\ reply' = line
                   /\ nlines < MaxLines
                   /\ nlines' = nlines + 1
                   /\ IF state # "off"
                      THEN /\ Goes(SHUT_DOWN, "read_events")
                           /\ UNCHANGED qmp_sock
                      ELSE /\ qmp_sock' = "closed"
                           /\ Ended(SHUT_DOWN, "finished", must_cancel)
            [] OTHER ->
                   /\ reply' = line
                   /\ qmp_sock' = "closed"
                   /\ Ended(SHUT_DOWN, "failed", must_cancel)
                   /\ UNCHANGED nlines
    /\ UNCHANGED <<vmvars, sigvars, runvars, outvars, sshvars,
                   sent, log, interrupts, phases>>

\* (mutant) the cancellation leaves the socket as it is (no finally clause)
_shut_down_cancelled_no_close ==
    /\ Cancelled(SHUT_DOWN)
    /\ Ended(SHUT_DOWN, "cancelled", Raised(SHUT_DOWN))
    /\ UNCHANGED <<vmvars, sigvars, runvars, outvars, sshvars,
                   qmpvars, log, interrupts, phases>>

\* CancelledError at any of its awaits; the finally clause closes the socket
_shut_down_cancelled ==
    /\ Cancelled(SHUT_DOWN)
    /\ qmp_sock' = IF qmp_sock = "open" THEN "closed" ELSE qmp_sock
    /\ Ended(SHUT_DOWN, "cancelled", Raised(SHUT_DOWN))
    /\ UNCHANGED <<vmvars, sigvars, runvars, outvars, sshvars,
                   sent, reply, nlines, log, interrupts, phases>>

(***************************************************************************)
(* VMControl._shutdown_timeout: the shutdown watchdog.                     *)
(***************************************************************************)
\* past the await of the boot probe's task, which has ended
shutdown_timeout_after_boot ==
    IF result[WAIT_UNTIL_BOOTED] # "finished"
    THEN Ended(SHUTDOWN_TIMEOUT, result[WAIT_UNTIL_BOOTED], must_cancel)
    ELSE Goes(SHUTDOWN_TIMEOUT,
              IF shutdown_request THEN "sleeping" ELSE "await_request")

_shutdown_timeout_start ==
    /\ NextToStart(SHUTDOWN_TIMEOUT)
    /\ Pending(SHUTDOWN_TIMEOUT)
    /\ ~ must_cancel[SHUTDOWN_TIMEOUT]
    /\ IF Pending(WAIT_UNTIL_BOOTED)
       THEN Goes(SHUTDOWN_TIMEOUT, "await_booted")
       ELSE shutdown_timeout_after_boot
    /\ UNCHANGED <<vmvars, sigvars, runvars, outvars, sshvars,
                   qmpvars, log, interrupts, phases>>

_shutdown_timeout_booted ==
    /\ BootedResumes(SHUTDOWN_TIMEOUT)
    /\ shutdown_timeout_after_boot
    /\ UNCHANGED <<vmvars, sigvars, runvars, outvars, sshvars,
                   qmpvars, log, interrupts, phases>>

_shutdown_timeout_requested ==
    /\ Resumes(SHUTDOWN_TIMEOUT, "await_request")
    /\ shutdown_request
    /\ Goes(SHUTDOWN_TIMEOUT, "sleeping")
    /\ UNCHANGED <<vmvars, sigvars, runvars, outvars, sshvars,
                   qmpvars, log, interrupts, phases>>

\* asyncio.sleep(60) returns
_shutdown_timeout_expired ==
    /\ Resumes(SHUTDOWN_TIMEOUT, "sleeping")
    /\ stderr' = Append(stderr, MsgShutdownTimeout)
    /\ Ended(SHUTDOWN_TIMEOUT, "finished", _cancel_tasks({}))
    /\ UNCHANGED <<vmvars, sigvars, runvars, notices,
                   shutdown_req_msg, sshvars, qmpvars, log, interrupts,
                   phases>>

_shutdown_timeout_cancelled ==
    /\ Cancelled(SHUTDOWN_TIMEOUT)
    /\ Ended(SHUTDOWN_TIMEOUT, "cancelled", Raised(SHUTDOWN_TIMEOUT))
    /\ UNCHANGED <<vmvars, sigvars, runvars, outvars, sshvars,
                   qmpvars, log, interrupts, phases>>

(***************************************************************************)
(* The specification.                                                      *)
(***************************************************************************)
Next ==
    \/ _run_create_tasks
    \/ _run_collect
    \/ _keyboard_interrupt
    \/ _run_vm_start
    \/ _run_vm_spawned
    \/ _run_vm_exit
    \/ _run_vm_cancelled
    \/ _wait_until_booted_start
    \/ _check_ssh_connect
    \/ _check_ssh_reply
    \/ _wait_until_booted_retry
    \/ _wait_until_booted_cancelled
    \/ _progress_start
    \/ _progress_tick
    \/ _progress_cancelled
    \/ _boot_timeout_start
    \/ _boot_timeout_expired
    \/ _boot_timeout_cancelled
    \/ _shut_down_start
    \/ _shut_down_booted
    \/ _shut_down_connected
    \/ _shut_down_greeting
    \/ _shut_down_caps
    \/ _shut_down_requested
    \/ _shut_down_event
    \/ _shut_down_cancelled
    \/ _shutdown_timeout_start
    \/ _shutdown_timeout_booted
    \/ _shutdown_timeout_requested
    \/ _shutdown_timeout_expired
    \/ _shutdown_timeout_cancelled

Spec == Init /\ [][Next]_vars

\* the same steps with the history of the first interrupt recorded
HistNext ==
    \/ _run_create_tasks
    \/ _run_collect
    \/ _keyboard_interrupt_recorded
    \/ _run_vm_start
    \/ _run_vm_spawned
    \/ _run_vm_exit
    \/ _run_vm_cancelled
    \/ _wait_until_booted_start
    \/ _check_ssh_connect
    \/ _check_ssh_reply
    \/ _wait_until_booted_retry
    \/ _wait_until_booted_cancelled
    \/ _progress_start
    \/ _progress_tick
    \/ _progress_cancelled
    \/ _boot_timeout_start
    \/ _boot_timeout_expired
    \/ _boot_timeout_cancelled
    \/ _shut_down_start
    \/ _shut_down_booted
    \/ _shut_down_connected
    \/ _shut_down_greeting
    \/ _shut_down_caps
    \/ _shut_down_requested
    \/ _shut_down_event
    \/ _shut_down_cancelled
    \/ _shutdown_timeout_start
    \/ _shutdown_timeout_booted
    \/ _shutdown_timeout_requested
    \/ _shutdown_timeout_expired
    \/ _shutdown_timeout_cancelled

HistSpec == Init /\ [][HistNext]_vars

\* The event loop runs every step that is ready: a step that raises a
\* requested cancellation, a first step, a step resumed by a timer, by the
\* end of the awaited task or by the event being set, and _run's own steps.
\* Nothing makes the child exit, the guest answer or an interrupt arrive.
Fairness ==
    /\ WF_vars(_run_create_tasks)
    /\ WF_vars(_run_collect)
    /\ WF_vars(_run_vm_start)
    /\ WF_vars(_run_vm_cancelled)
    /\ WF_vars(_wait_until_booted_start)
    /\ WF_vars(_wait_until_booted_cancelled)
    /\ WF_vars(_progress_start)
    /\ WF_vars(_progress_tick)
    /\ WF_vars(_progress_cancelled)
    /\ WF_vars(_boot_timeout_start)
    /\ WF_vars(_boot_timeout_expired)
    /\ WF_vars(_boot_timeout_cancelled)
    /\ WF_vars(_shut_down_start)
    /\ WF_vars(_shut_down_booted)
    /\ WF_vars(_shut_down_requested)
    /\ WF_vars(_shut_down_cancelled)
    /\ WF_vars(_shutdown_timeout_start)
    /\ WF_vars(_shutdown_timeout_booted)
    /\ WF_vars(_shutdown_timeout_requested)
    /\ WF_vars(_shutdown_timeout_expired)
    /\ WF_vars(_shutdown_timeout_cancelled)

FairSpec == Spec /\ Fairness

TypeOK ==
    /\ state \in states
    /\ qmp_established \in BOOLEAN
    /\ pid \in {None, <<1>>}
    /\ exit_status \in {None} \cup {<<c>> : c \in ExitCodes}
    /\ mem_err \in BOOLEAN
    /\ shutdown_request \in BOOLEAN
    /\ result \in [Tasks -> {"pending", "finished", "cancelled", "failed"}]
    /\ must_cancel \in [Tasks -> BOOLEAN]
    /\ rpc \in {"init", "gather", "done"}
    /\ errors \subseteq Tasks
    /\ notices \in 0..1
    /\ attempts \in 0..MaxAttempts
    /\ qmp_sock \in {"none", "open", "closed"}
    /\ reply \in QmpLines \cup {NoReply}
    /\ nlines \in 0..MaxLines
    /\ interrupts \in 0..MaxInterrupts
    /\ requested_in \in {None} \cup {<<s>> : s \in states}

(***************************************************************************)
(* Properties.                                                             *)
(***************************************************************************)
Range(s) == {s[i] : i \in DOMAIN s}

Count(s, x) == Cardinality({i \in DOMAIN s : s[i] = x})

\* the boot probe has succeeded: the state has been set to 'running'
ProbeSucceeded == "running" \in Range(phases)

\* after this step the task (if it has not ended) has a cancellation
\* requested, directly or through the task it awaits
CancelRequestedNext(t) ==
    result'[t] = "pending" =>
        \/ must_cancel'[t]
        \/ pc'[t] = "await_booted" /\ must_cancel'[WAIT_UNTIL_BOOTED]

\* the step in which task t ends
Ends(t) == result[t] = "pending" /\ result'[t] # "pending"

\* C1: every change of the phase is off->booting made by _run before the
\* tasks exist, booting->running made by a step of the boot probe,
\* running->shutting_down made by a step of the control-socket client, or a
\* change to off made by the step that ends the process supervisor.
PhaseStep ==
    \/ state = "off" /\ state' = "booting" /\ rpc = "init"
    \/ /\ state = "booting" /\ state' = "running"
       /\ pc'[WAIT_UNTIL_BOOTED] # pc[WAIT_UNTIL_BOOTED]
    \/ /\ state = "running" /\ state' = "shutting_down"
       /\ pc'[SHUT_DOWN] # pc[SHUT_DOWN]
    \/ state' = "off" /\ Ends(RUN_VM)

C1_PhaseTransitions == [][state' # state => PhaseStep]_vars

C1_Witness == phases = <<"booting", "running", "shutting_down", "off">>

\* C2 as stated: whenever the phase is back to off after booting, an exit
\* code has been recorded.
C2_OffOnlyAfterExit ==
    (state = "off" /\ phases # <<>>) => exit_status # None

\* C2 amended: whenever the phase is back to off after booting, the process
\* supervisor has ended, and it has either recorded an exit code or ended
\* by an exception (the spawn failed) or by cancellation (a watchdog).
C2_OffOnlyBySupervisor ==
    (state = "off" /\ phases # <<>>) =>
        /\ result[RUN_VM] # "pending"
        /\ exit_status # None \/ result[RUN_VM] \in {"failed", "cancelled"}

C2_Witness ==
    /\ state = "off"
    /\ phases = <<"booting", "running", "off">>
    /\ pid # None
    /\ exit_status = None
    /\ result[RUN_VM] = "cancelled"

\* C3 as stated: the step that ends the process supervisor, however it ends
\* (exit of the child, spawn failure, internal exception, cancellation),
\* sets the phase to off and requests the cancellation of the boot
\* watchdog, the boot probe, the shutdown negotiation and the shutdown
\* watchdog; and once the supervisor has ended, every task ends and the
\* join of _run returns.
C3_CleanupEndsAllTasks ==
    /\ [][Ends(RUN_VM) =>
            /\ state' = "off"
            /\ \A t \in {BOOT_TIMEOUT, WAIT_UNTIL_BOOTED, SHUT_DOWN,
                         SHUTDOWN_TIMEOUT} : CancelRequestedNext(t)]_vars
    /\ (rpc = "gather" /\ result[RUN_VM] # "pending")
          ~> (rpc = "done" /\ \A t \in Tasks : result[t] # "pending")

\* C4 as stated: when the boot watchdog's sleep completes with the phase
\* still booting it reports the timeout and requests the cancellation of
\* every task; and a run in which the boot timeout was reported has ended
\* with the phase off and without the phase ever having been running.
C4_BootTimeout ==
    /\ [][(Ends(BOOT_TIMEOUT) /\ ~ must_cancel[BOOT_TIMEOUT]
              /\ state = "booting") =>
            /\ stderr' = Append(stderr, MsgBootTimeout)
            /\ \A t \in Tasks : CancelRequestedNext(t)]_vars
    /\ []((rpc = "done" /\ MsgBootTimeout \in Range(stderr)) =>
            /\ state = "off"
            /\ ~ ProbeSucceeded)

\* C5: the phase is set to running at most once; once the probe has
\* succeeded the boot watchdog has ended or has its cancellation requested,
\* and no boot timeout is or has been reported.
C5_BootedOnce ==
    /\ Count(phases, "running") <= 1
    /\ ProbeSucceeded =>
          /\ result[WAIT_UNTIL_BOOTED] = "finished"
          /\ result[BOOT_TIMEOUT] # "pending" \/ must_cancel[BOOT_TIMEOUT]
          /\ MsgBootTimeout \notin Range(stderr)

C5_Witness ==
    /\ ProbeSucceeded
    /\ attempts >= 2
    /\ result[BOOT_TIMEOUT] = "finished"
    /\ rpc = "done"

PowerdownSent == CmdPowerdown \in Range(sent)

\* the last line the shutdown negotiation read is a SHUTDOWN event
LastLineShutdown == reply = LineShutdown

\* the line parses to a JSON object
IsObject(line) == json_loads(line).t = "dict"

\* C6 as stated: once the power-down command has been sent, the shutdown
\* negotiation task has ended only if the last line it read is a SHUTDOWN
\* event (and one power-down command was sent).  Runs in which a watchdog
\* fired or the task failed on a line are left aside.
C6_EndsOnlyOnShutdownEvent ==
    (/\ PowerdownSent
     /\ result[SHUT_DOWN] \in {"finished", "cancelled"}
     /\ stderr = <<>>) =>
        /\ Count(sent, CmdPowerdown) = 1
        /\ LastLineShutdown

\* C6 amended: at most one power-down command is sent in a run, and only
\* after the negotiation succeeded and the signal was raised; it has been
\* sent exactly once when the task reads events or has returned; the task
\* returns only upon a SHUTDOWN event line, and a parsed object that is no
\* SHUTDOWN event leaves it reading and sends nothing; without that line it
\* ends only cancelled, or failed on a line that is no JSON object or on a
\* read that raised and returned no line.
C6_ReturnsOnlyOnShutdownEvent ==
    /\ [](/\ Count(sent, CmdPowerdown) <= 1
          /\ PowerdownSent => qmp_established /\ shutdown_request
          /\ (pc[SHUT_DOWN] = "read_events"
                \/ result[SHUT_DOWN] = "finished")
                => Count(sent, CmdPowerdown) = 1
          /\ result[SHUT_DOWN] = "finished" => LastLineShutdown)
    /\ [][(/\ pc[SHUT_DOWN] = "read_events"
           /\ result'[SHUT_DOWN] = "failed")
            => \/ ~ IsObject(reply')
               \/ /\ reply' = reply
                  /\ nlines' = nlines]_vars
    /\ [][(/\ pc[SHUT_DOWN] = "read_events"
           /\ ~ must_cancel[SHUT_DOWN]
           /\ reply' # reply \/ nlines' # nlines
           /\ IsObject(reply') /\ reply' # LineShutdown)
            => /\ pc'[SHUT_DOWN] = "read_events"
               /\ result'[SHUT_DOWN] = "pending"
               /\ sent' = sent]_vars

C6_Witness ==
    /\ result[SHUT_DOWN] = "finished"
    /\ nlines >= 2
    /\ reply = LineShutdown
    /\ Count(sent, CmdPowerdown) = 1

\* the step in which opening the control socket fails
OpenFails ==
    /\ Ends(SHUT_DOWN)
    /\ result'[SHUT_DOWN] = "failed"
    /\ result[WAIT_UNTIL_BOOTED] = "finished"
    /\ qmp_sock = "none"

\* C7: the step in which opening the control socket fails ends the shutdown
\* negotiation task with an error and neither ends another task nor requests
\* a cancellation; and once _run has joined the tasks, a failed shutdown
\* negotiation task is among the errors it collected.
C7_OpenFailureCollected ==
    /\ [][OpenFails =>
            \A t \in Tasks \ {SHUT_DOWN} :
                /\ result'[t] = result[t]
                /\ must_cancel'[t] = must_cancel[t]]_vars
    /\ []((rpc = "done" /\ result[SHUT_DOWN] = "failed")
             => SHUT_DOWN \in errors)

C7_Witness ==
    /\ rpc = "done"
    /\ qmp_sock = "none"
    /\ result[WAIT_UNTIL_BOOTED] = "finished"
    /\ result[SHUT_DOWN] = "failed"
    /\ result[RUN_VM] = "finished"
    /\ errors = {SHUT_DOWN}

\* C8: the shutdown-request signal, once set, stays set; every delivery of
\* the interrupt leaves it set; a delivery when it is set already changes
\* nothing of the program's state; and at most one notice is printed and at
\* most one power-down command sent however many times it is delivered.
C8_SignalIdempotent ==
    /\ [][shutdown_request => shutdown_request']_vars
    /\ [][interrupts' # interrupts => shutdown_request']_vars
    /\ [][(interrupts' # interrupts /\ shutdown_request) =>
            UNCHANGED <<vmvars, shutdown_request, taskvars, runvars,
                        outvars, sshvars, qmpvars, log, phases>>]_vars
    /\ [](notices <= 1 /\ Count(sent, CmdPowerdown) <= 1)

C8_Witness ==
    /\ interrupts >= 2
    /\ shutdown_request
    /\ notices = 1
    /\ Count(sent, CmdPowerdown) = 1
    /\ rpc = "done"

\* C9 as stated: when the shutdown watchdog's sleep completes it reports the timeout
\* and requests the cancellation of every task; and once the probe has
\* succeeded and the signal is raised, the run ends with every task ended
\* and the phase off, after the child's exit was observed or the shutdown
\* timeout was reported.
C9_ShutdownBounded ==
    /\ [][(Ends(SHUTDOWN_TIMEOUT) /\ ~ must_cancel[SHUTDOWN_TIMEOUT]
              /\ pc[SHUTDOWN_TIMEOUT] = "sleeping") =>
            /\ stderr' = Append(stderr, MsgShutdownTimeout)
            /\ \A t \in Tasks : CancelRequestedNext(t)]_vars
    /\ (ProbeSucceeded /\ shutdown_request)
          ~> /\ rpc = "done"
             /\ state = "off"
             /\ \A t \in Tasks : result[t] # "pending"
             /\ exit_status # None \/ MsgShutdownTimeout \in Range(stderr)

\* C10: a run that has ended in which the probe succeeded, the negotiation
\* succeeded, the power-down command was sent, the shutdown negotiation
\* task returned (the SHUTDOWN event was read) and the child exited with
\* code 0 has passed through booting, running, shutting_down and off in
\* that order, reported no timeout, collected no error, and ends with the
\* phase off, the memory-failure flag unset and the control channel
\* established.
C10_NormalRun ==
    (/\ rpc = "done"
     /\ ProbeSucceeded
     /\ PowerdownSent
     /\ result[SHUT_DOWN] = "finished"
     /\ exit_status = <<0>>)
        => /\ phases = <<"booting", "running", "shutting_down", "off">>
           /\ state = "off"
           /\ stderr = <<>>
           /\ errors = {}
           /\ mem_err = FALSE
           /\ qmp_established = TRUE
           /\ shutdown_request

C10_Witness ==
    /\ rpc = "done"
    /\ attempts >= 2
    /\ PowerdownSent
    /\ reply = LineShutdown
    /\ result[SHUT_DOWN] = "finished"
    /\ exit_status = <<0>>
    /\ scan_log(log)
    /\ state = "off"

\* the log file as one sequence, every line ended by its newline
RECURSIVE JoinLines(_)
JoinLines(lines) ==
    IF lines = <<>> THEN <<>>
    ELSE lines[1] \o <<"\n">> \o JoinLines(Tail(lines))

\* the log file contains the fixed memory-allocation failure string
LogHasMemNeedle == contains(JoinLines(log), MemNeedle)

\* C11: in every state the memory-failure flag is set if and only if an
\* exit code has been recorded, it is 1, and the log file contains the fixed
\* memory-allocation failure string; with any other exit code, or none, the
\* flag is unset whatever the log contains.
C11_MemErrIffExitOneAndString ==
    mem_err <=> (exit_status = <<1>> /\ LogHasMemNeedle)

C11_Witness ==
    /\ rpc = "done"
    /\ mem_err
    /\ exit_status = <<1>>
    /\ Len(log) = 2
    /\ ~ contains(log[1], MemNeedle)

\* C12 as stated: the boot probe task never ends with an error; it ends
\* only by succeeding (the phase was set to running) or by cancellation.
C12_ProbeNeverEndsWithError ==
    \/ result[WAIT_UNTIL_BOOTED] \in {"pending", "cancelled"}
    \/ result[WAIT_UNTIL_BOOTED] = "finished" /\ ProbeSucceeded

\* C13 as stated: the step in which a task ends with an error neither ends
\* another task nor requests a cancellation (the process supervisor's
\* cleanup, which runs however it ends, is left aside); a task ends with an
\* error only by an error of its own, never by the error of the task it
\* waits for; and once _run has joined the tasks every failed task is among
\* the errors it collected.
C13_FailureDoesNotPropagate ==
    /\ [][\A t \in Tasks \ {RUN_VM} :
            (Ends(t) /\ result'[t] = "failed") =>
                \A u \in Tasks \ {t} :
                    /\ result'[u] = result[u]
                    /\ must_cancel'[u] = must_cancel[u]]_vars
    /\ [](\A t \in {SHUT_DOWN, SHUTDOWN_TIMEOUT} :
            result[t] = "failed" => result[WAIT_UNTIL_BOOTED] # "failed")
    /\ [](rpc = "done" =>
            \A t \in Tasks : result[t] = "failed" => t \in errors)

\* a step of the progress reporter
ProgressStep ==
    /\ rpc # "init"
    /\ \/ pc'[PROGRESS] # pc[PROGRESS]
       \/ notices' # notices
       \/ shutdown_req_msg' # shutdown_req_msg

\* C14: a step of the progress reporter changes nothing but its own
\* position, its own outcome and the notice it printed: not the phase, the
\* signal, another task or a result field; at most one notice is printed in
\* a run; a step resumed with the phase off ends the task, it returns only
\* with the phase off, and once the phase is off again it ends.
C14_ProgressObservesOnly ==
    /\ [][ProgressStep =>
            /\ UNCHANGED <<vmvars, shutdown_request, runvars, stderr,
                           sshvars, qmpvars, log, interrupts, phases>>
            /\ \A t \in Tasks \ {PROGRESS} :
                  /\ pc'[t] = pc[t]
                  /\ result'[t] = result[t]
                  /\ must_cancel'[t] = must_cancel[t]]_vars
    /\ [](notices <= 1)
    /\ [][(ProgressStep /\ ~ must_cancel[PROGRESS] /\ state = "off")
             => result'[PROGRESS] = "finished"]_vars
    /\ [][(Ends(PROGRESS) /\ result'[PROGRESS] = "finished")
             => state = "off"]_vars
    /\ (rpc = "gather" /\ state = "off") ~> ~ Pending(PROGRESS)

C14_Witness ==
    /\ rpc = "done"
    /\ notices = 1
    /\ interrupts >= 2
    /\ result[PROGRESS] = "finished"
    /\ phases = <<"booting", "running", "shutting_down", "off">>

\* the shutdown negotiation is past `await self._tasks['_wait_until_booted']`
\* and open_unix_connection has been called without raising
NegotiationBegun ==
    \/ pc[SHUT_DOWN] \in {"qmp_connecting", "read_greeting", "read_caps",
                          "await_request", "read_events"}
    \/ qmp_sock # "none"
    \/ sent # <<>>
    \/ qmp_established

\* C15: the control socket is opened, the capabilities request sent and the
\* control-channel-established flag set only once the boot probe has ended
\* successfully (the phase has been set to running); the capabilities
\* request is the first command sent; and the power-down command is sent
\* only after it, with the flag set and the shutdown-request signal raised.
C15_NegotiationAfterBoot ==
    /\ NegotiationBegun =>
          /\ ProbeSucceeded
          /\ result[WAIT_UNTIL_BOOTED] = "finished"
          /\ state # "booting"
    /\ sent \in {<<>>, <<CmdCapabilities>>, <<CmdCapabilities, CmdPowerdown>>}
    /\ PowerdownSent => qmp_established /\ shutdown_request
    /\ qmp_established => Count(sent, CmdCapabilities) = 1

C15_Witness ==
    /\ pc[SHUT_DOWN] = "await_request"
    /\ qmp_established
    /\ ~ shutdown_request
    /\ sent = <<CmdCapabilities>>
    /\ attempts >= 2
    /\ state = "running"

\* C16: whenever the shutdown negotiation task has ended, however it ended,
\* the control socket is not open (it is closed if it was ever opened); the
\* socket is opened at most once in a run, by that task, and a closed
\* socket is never opened again, so at most one connection exists at a time.
C16_SocketClosedOnEveryExit ==
    /\ [](result[SHUT_DOWN] # "pending" => qmp_sock # "open")
    /\ [](qmp_sock = "open" =>
            pc[SHUT_DOWN] \in {"read_greeting", "read_caps", "await_request",
                               "read_events"})
    /\ [][(qmp_sock' = "open" /\ qmp_sock # "open") =>
            /\ qmp_sock = "none"
            /\ pc[SHUT_DOWN] = "qmp_connecting"]_vars
    /\ [][qmp_sock = "closed" => qmp_sock' = "closed"]_vars
    /\ [][(qmp_sock = "open" /\ Ends(SHUT_DOWN)) => qmp_sock' = "closed"]_vars

C16_Witness ==
    /\ result[SHUT_DOWN] = "cancelled"
    /\ qmp_sock = "closed"
    /\ PowerdownSent
    /\ nlines >= 1
    /\ exit_status # None

\* the step in which the shutdown negotiation resumes with the reply to its
\* capabilities request
CapsReplyStep ==
    /\ pc[SHUT_DOWN] = "read_caps"
    /\ pc'[SHUT_DOWN] # "read_caps"
    /\ ~ must_cancel[SHUT_DOWN]

\* C17: when the reply to the capabilities request is anything but an
\* object whose return field is the empty object, that step ends the
\* shutdown negotiation task with an error, with one capabilities request
\* sent, the flag unset, the socket closed, the phase unchanged and every
\* other task left as it was; and a task that failed with the flag unset
\* has sent no power-down command, the phase has never been shutting_down,
\* and nothing is sent or established after the task has ended.
C17_BadReplyIsFatal ==
    /\ [][(CapsReplyStep /\ reply' # LineReturnOk) =>
            /\ result'[SHUT_DOWN] = "failed"
            /\ sent' = <<CmdCapabilities>>
            /\ ~ qmp_established'
            /\ qmp_sock' = "closed"
            /\ state' = state
            /\ \A t \in Tasks \ {SHUT_DOWN} :
                  /\ pc'[t] = pc[t]
                  /\ result'[t] = result[t]
                  /\ must_cancel'[t] = must_cancel[t]]_vars
    /\ []((result[SHUT_DOWN] = "failed" /\ ~ qmp_established) =>
            /\ ~ PowerdownSent
            /\ Count(sent, CmdCapabilities) <= 1
            /\ "shutting_down" \notin Range(phases))
    /\ [][~ Pending(SHUT_DOWN) => UNCHANGED <<qmp_established, sent>>]_vars

C17_Witness ==
    /\ rpc = "done"
    /\ result[SHUT_DOWN] = "failed"
    /\ reply = LineReturnData
    /\ sent = <<CmdCapabilities>>
    /\ ~ qmp_established
    /\ shutdown_request
    /\ result[PROGRESS] = "finished"
    /\ exit_status = <<0>>

\* C18: once _run has joined the tasks, the errors it collected are exactly
\* the tasks that ended with an exception other than cancellation: no task
\* that ended cancelled is among them, whoever cancelled it.  And a task
\* that has ended is left as it is by every later step: a cancellation of
\* it changes neither its outcome nor its cancellation flag, which is unset.
C18_CancellationIsNoError ==
    /\ [](rpc = "done" =>
            /\ \A t \in Tasks : result[t] = "cancelled" => t \notin errors
            /\ errors = {t \in Tasks : result[t] = "failed"})
    /\ [](\A t \in Tasks : result[t] # "pending" => ~ must_cancel[t])
    /\ [][\A t \in Tasks : result[t] # "pending" =>
            /\ result'[t] = result[t]
            /\ pc'[t] = pc[t]
            /\ must_cancel'[t] = must_cancel[t]]_vars

\* the boot probe had returned when the supervisor's cleanup cancelled it,
\* and the shutdown watchdog had fired before: tasks cancelled by both
C18_Witness ==
    /\ rpc = "done"
    /\ errors = {}
    /\ stderr = <<MsgShutdownTimeout>>
    /\ result[WAIT_UNTIL_BOOTED] = "finished"
    /\ result[RUN_VM] = "cancelled"
    /\ result[SHUT_DOWN] = "cancelled"
    /\ result[PROGRESS] = "cancelled"
    /\ result[SHUTDOWN_TIMEOUT] = "cancelled"

\* C19: whenever the phase is shutting_down the control-channel-established
\* flag is set and the shutdown-request signal is raised; whenever the flag
\* is set the phase is running, shutting_down or off, never booting; and no
\* step resets the flag.
C19_FlagAndPhase ==
    /\ [](state = "shutting_down" => qmp_established /\ shutdown_request)
    /\ [](qmp_established =>
            state \in {"running", "shutting_down", "off"})
    /\ [][qmp_established => qmp_established']_vars

C19_Witness ==
    /\ state = "shutting_down"
    /\ qmp_established
    /\ shutdown_request
    /\ pc[SHUT_DOWN] = "read_events"
    /\ nlines >= 1
    /\ interrupts = 1

\* the first interrupt was delivered while the phase was booting
RequestedWhileBooting == requested_in = <<"booting">>

\* the shutdown watchdog resumes from its wait for the boot probe, which
\* has returned
WatchdogBootedStep ==
    /\ pc[SHUTDOWN_TIMEOUT] = "await_booted"
    /\ pc'[SHUTDOWN_TIMEOUT] # "await_booted"
    /\ ~ must_cancel[SHUTDOWN_TIMEOUT]
    /\ result[WAIT_UNTIL_BOOTED] = "finished"

\* C20: a shutdown request, once delivered, stays raised; when the first
\* interrupt was delivered while the phase was booting, the step in which
\* the capability negotiation succeeds also sends the power-down command
\* and sets the phase to shutting_down, with no further interrupt, so that
\* in such a run the control channel is never established without the
\* power-down command sent; the shutdown watchdog's delay is running (or
\* has expired) only in states where the boot probe has succeeded and the
\* request is raised, and in such a run it starts in the step in which the
\* watchdog resumes after the probe has returned.
C20_EarlyRequestNotLost ==
    /\ [](requested_in # None => shutdown_request)
    /\ [][(CapsReplyStep /\ qmp_established' /\ RequestedWhileBooting)
             => /\ reply' = LineReturnOk
                /\ sent' = <<CmdCapabilities, CmdPowerdown>>
                /\ state' = "shutting_down"
                /\ interrupts' = interrupts]_vars
    /\ []((RequestedWhileBooting /\ qmp_established) => PowerdownSent)
    /\ []((\/ pc[SHUTDOWN_TIMEOUT] = "sleeping"
           \/ MsgShutdownTimeout \in Range(stderr))
             => /\ ProbeSucceeded
                /\ result[WAIT_UNTIL_BOOTED] = "finished"
                /\ shutdown_request)
    /\ [][(WatchdogBootedStep /\ RequestedWhileBooting)
             => pc'[SHUTDOWN_TIMEOUT] = "sleeping"]_vars

C20_Witness ==
    /\ RequestedWhileBooting
    /\ interrupts = 1
    /\ attempts >= 2
    /\ sent = <<CmdCapabilities, CmdPowerdown>>
    /\ state = "shutting_down"
    /\ pc[SHUT_DOWN] = "read_events"
    /\ pc[SHUTDOWN_TIMEOUT] = "sleeping"

\* a watchdog has reported its timeout
TimeoutReported ==
    \/ MsgBootTimeout \in Range(stderr)
    \/ MsgShutdownTimeout \in Range(stderr)

\* C21 as stated: whenever a watchdog has reported a timeout no exit code is
\* recorded, and the run then ends with the phase off and the exit code
\* absent; once an exit code is recorded nothing more is reported; the step
\* that records the exit code requests the cancellation of both watchdogs,
\* and the step that reports a timeout that of the process supervisor, so
\* that whichever of the two runs first, in the same round of the event
\* loop or not, keeps the other from taking effect.
C21_TimeoutExcludesExit ==
    /\ [](TimeoutReported => exit_status = None)
    /\ [](exit_status # None => ~ TimeoutReported)
    /\ [][exit_status # None => stderr' = stderr]_vars
    /\ [][exit_status' # exit_status =>
            /\ CancelRequestedNext(BOOT_TIMEOUT)
            /\ CancelRequestedNext(SHUTDOWN_TIMEOUT)]_vars
    /\ [][(~ TimeoutReported /\ TimeoutReported') =>
            /\ CancelRequestedNext(RUN_VM)
            /\ exit_status' = None]_vars
    /\ TimeoutReported ~>
          (rpc = "done" /\ state = "off" /\ exit_status = None)

====
